---- MODULE Spec2Model ----
(***************************************************************************)
(* Model of examples/earth.c: a muon transported through a three-layer     *)
(* flat Earth (StandardRock, Water, Air) with a TURTLE stepper as geometry *)
(* and the PUMAS engine as propagator.                                     *)
(*                                                                         *)
(* Lengths are counted in half-metres, so that the start height of -0.5 m  *)
(* (earth.c:226) is the integer -1 and the flat elevations -1E+03, 0,      *)
(* 1E+03 (earth.c:209-213) are -2000, 0, 2000.  Only the altitude of the   *)
(* particle is tracked: the layers are flat, so the medium depends on the  *)
(* altitude alone.  The direction is its vertical sense: 1 up, -1 down,    *)
(* 0 horizontal.  The positions are ECEF positions and the altitude is     *)
(* taken over the ellipsoid (earth.c:134-136, 215-229), which the flat     *)
(* layers follow: a horizontal ray leaves the ellipsoid and gains altitude *)
(* over the length of a transport call.                                    *)
(***************************************************************************)
EXTENDS Integers, Sequences, FiniteSets, TLC

VARIABLES
    pc,          \* position of main
    narg,        \* number of command line words (input)
    dumpOK,      \* whether fopen("materials/dump") succeeds (input)
    db,          \* the materials of the dump, in the order of their indices (input)
    argDir,      \* vertical sense given by the ELEVATION argument (input)
    argEnergy,   \* the KINETIC_ENERGY argument (input)
    height0,     \* height handed to turtle_stepper_position (earth.c:226)
    layer0,      \* layer handed to turtle_stepper_position (earth.c:227)
    handler,     \* whether handle_error is installed
    physics,     \* static handle, "null" or "live"
    context,     \* static handle, "null" or "live"
    stepper,     \* static handle, "null" or "live"
    cfg,         \* the callbacks and the event mask of the context
    layers,      \* the layers of the stepper, each the elevations added to it
    earth_media, \* the media container: the material index of each medium
    state,       \* struct pumas_state of main
    event,       \* the event of the last transport call
    events,      \* the events of the transport calls, the first MaxCalls of them
    media,       \* media[2] of the last transport call
    calls,       \* the calls of earth_medium made so far: position, index, medium, step
    ncalls,      \* number of transport calls, counted up to MaxCalls
    printStep,   \* static int step of print_state, counted up to MaxCalls + 2
    obs,         \* the lines printed by print_state, the first MaxCalls + 1 of them
    stop,        \* the conditions of earth.c:240 that held when the loop was left
    released,    \* the handles destroyed by exit_gracefully, in order
    diag,        \* the lines written to stderr
    rc           \* the exit status, -1 while the process runs

vars == <<pc, narg, dumpOK, db, argDir, argEnergy, height0, layer0, handler,
          physics, context, stepper, cfg, layers, earth_media, state, event,
          events, media, calls, ncalls, printStep, obs, stop, released, diag, rc>>

\* ------------------------------------------------------------------ bounds

\* Transport calls and observations are counted up to this many.
MaxCalls == 3
\* The largest kinetic energy given on the command line.
MaxEnergy == 1
\* How far below the lowest flat the particle is followed.
Margin == 2

\* --------------------------------------------------------------- constants

NUMBER_OF_LAYERS == 3
EXIT_SUCCESS == 0
EXIT_FAILURE == 1
\* The null pointer, as a medium and as a material index not yet mapped.
NULL == -1
\* The flat elevations of earth.c:209-213, in half-metres.
Flats == <<-2000, 0, 2000>>
\* The height of earth.c:226, -0.5 m, in half-metres, and the layer of earth.c:227.
StartHeight == -1
StartLayer == 0
\* The names of earth.c:177-180, by medium.
MaterialNames == <<"StandardRock", "Water", "Air">>

\* The dumps the program may be given: the materials in the order of their indices.
Dumps == { <<"StandardRock", "Water", "Air">>,
           <<"Air", "StandardRock", "Water">>,
           <<"StandardRock", "Water">> }

Min(a, b) == IF a < b THEN a ELSE b
Max(a, b) == IF a > b THEN a ELSE b
Abs(a) == IF a < 0 THEN -a ELSE a

\* ------------------------------------------------------- TURTLE, the geometry

\* turtle_stepper_add_flat: the elevation is added to the last layer, which is
\* created when the stepper has none.
turtle_stepper_add_flat(ls, elevation) ==
    IF ls = <<>> THEN << <<elevation>> >>
    ELSE [ls EXCEPT ![Len(ls)] = Append(@, elevation)]

\* turtle_stepper_add_layer: a new empty layer on top of the others.
turtle_stepper_add_layer(ls) == Append(ls, <<>>)

\* The ground elevation of layer k (1-based here, k - 1 in the program).
Ground(ls, k) == ls[k][1]

\* turtle_stepper_position: the position at the given height above the ground
\* of the given layer ("0.5 m below the top of the lowest layer", earth.c:217).
turtle_stepper_position(ls, height, layer) == Ground(ls, layer + 1) + height

\* turtle_ecef_to_geodetic: the altitude of a position.  The model's position
\* is the altitude already, the horizontal coordinates being left out.
turtle_ecef_to_geodetic(position) == position

\* turtle_ecef_from_horizontal: the direction of an elevation angle, as its
\* vertical sense.
turtle_ecef_from_horizontal(elevationSense) == elevationSense

\* A slip in the reading of earth.c:215-229: a horizontal ray taken to lose
\* altitude.
Climb_down(direction) == IF direction > 0 THEN 1 ELSE -1

\* The sense in which the altitude over the ellipsoid changes along a ray of
\* the given direction: it grows along a ray that goes up and along a
\* horizontal ray, which is a tangent of the ellipsoid.
Climb(direction) == IF direction >= 0 THEN 1 ELSE -1

\* turtle_stepper_step: the layer index is the number of grounds at or below the
\* position, so that layer i lies under ground i and the positions above the top
\* ground are in no layer (a 1 km deep ocean under a 1 km high atmosphere,
\* earth.c:196-201).  The step is the distance to the nearest ground, and at
\* least one half-metre.  With a direction (a one-element sequence; <<>> is the
\* NULL of earth.c:94) the position is moved by the step and the index is the
\* one found there.
turtle_stepper_step(ls, position, direction) ==
    LET below(p) == {k \in 1..Len(ls) : Ground(ls, k) <= p}
        dist(p) == {Abs(p - Ground(ls, k)) : k \in 1..Len(ls)}
        nearest(p) == CHOOSE d \in dist(p) : \A e \in dist(p) : d <= e
        step == IF ls = <<>> THEN 1 ELSE Max(1, nearest(position))
        moved == IF direction = <<>> THEN position
                 ELSE position + direction[1] * step
    IN [step |-> step, index |-> Cardinality(below(moved)), position |-> moved]

\* -------------------------------------------------- the medium callback

\* A slip in earth.c:100: the lowest index is taken for no layer.
medium_of_index_positive(index) ==
    IF (index > 0) /\ (index < NUMBER_OF_LAYERS) THEN index ELSE NULL

\* earth.c:99-105: the medium of a layer index, a pointer into earth_media
\* (earth_media + i is i) or NULL.
medium_of_index(index) ==
    IF (index >= 0) /\ (index < NUMBER_OF_LAYERS) THEN index ELSE NULL

\* A slip in earth.c:94: the direction of the state is handed to the stepper,
\* which then moves the position.
earth_medium_moving(ls, st) ==
    LET r == turtle_stepper_step(ls, st.position, <<st.direction>>)
    IN [step |-> r.step, index |-> r.index, medium |-> medium_of_index(r.index),
        position |-> r.position]

\* A slip in earth.c:97: the step handed back is twice the step of the stepper.
earth_medium_scaled(ls, st) ==
    LET r == turtle_stepper_step(ls, st.position, <<>>)
    IN [step |-> 2 * r.step, index |-> r.index,
        medium |-> medium_of_index(r.index), position |-> r.position]

\* earth.c:78-108: earth_medium.  The result holds what the call returns
\* through medium_ptr and step_ptr, and the position it leaves in the state.
earth_medium(ls, st) ==
    LET r == turtle_stepper_step(ls, st.position, <<>>)
    IN [step |-> r.step, index |-> r.index, medium |-> medium_of_index(r.index),
        position |-> r.position]

\* What a call of earth_medium on state st adds to the record of calls.
Call(ls, st) ==
    LET r == earth_medium(ls, st)
    IN [position |-> st.position, index |-> r.index, medium |-> r.medium,
        step |-> r.step]

\* ------------------------------------------------- the material database

\* pumas_physics_material_index: the index of a name in the dump, NULL when the
\* dump has no such material (the call then raises an error).
pumas_physics_material_index(d, name) ==
    IF \E k \in 1..Len(d) : d[k] = name
    THEN (CHOOSE k \in 1..Len(d) : d[k] = name) - 1
    ELSE NULL

\* pumas_physics_material_name: the name of an index.
pumas_physics_material_name(d, material) == d[material + 1]

\* ------------------------------------------------ PUMAS, the propagation engine

\* The positions the particle is followed over.
Positions(ls) ==
    IF ls = <<>> THEN {}
    ELSE (Ground(ls, 1) - Margin) .. (Ground(ls, Len(ls)) + Margin)

\* The positions next to a ground: the medium changes nowhere else.
NearGround(ls) ==
    {Ground(ls, k) + d : k \in 1..Len(ls), d \in {-1, 0}}

\* pumas_context_transport: the outcomes of one call on state st, each the state
\* it leaves, the event and the media before and after.  A particle in no
\* medium, or without energy, is left where it is.  Otherwise the particle goes
\* along its direction, its altitude changing in the sense of Climb, and the
\* call ends where the medium callback first gives
\* another medium (with MEDIUM among the events; without, where it first gives
\* none), or before that with the energy at zero, or before that on another
\* event; the energy never grows.  A call that ends early ends where it began
\* or one half-metre short of the change of medium; with no change of medium
\* ahead, where it began or one step of the medium callback further.
pumas_context_transport(ls, mask, st) ==
    LET mediumAt(p) == earth_medium(ls, [st EXCEPT !.position = p]).medium
        m0 == mediumAt(st.position)
        ahead == {p \in NearGround(ls) :
                     /\ (p - st.position) * Climb(st.direction) > 0
                     /\ IF "MEDIUM" \in mask THEN mediumAt(p) # m0
                        ELSE mediumAt(p) = NULL}
        cross == CHOOSE p \in ahead :
                     \A q \in ahead : Abs(p - st.position) <= Abs(q - st.position)
        bound == earth_medium(ls, st).step
        partial == {st.position} \cup
                   (IF ahead # {}
                    THEN {cross - Climb(st.direction)}
                    ELSE {st.position + Climb(st.direction) * bound} \cap Positions(ls))
    IN IF m0 = NULL
       THEN {[state |-> st, event |-> "MEDIUM", media |-> <<NULL, NULL>>]}
       ELSE IF st.energy = 0
       THEN {[state |-> st, event |-> "LIMIT_ENERGY", media |-> <<m0, m0>>]}
       ELSE {[state |-> [st EXCEPT !.position = cross, !.energy = e],
              event |-> "MEDIUM", media |-> <<m0, mediumAt(cross)>>] :
                 e \in IF ahead # {} THEN 0..st.energy ELSE {}}
            \cup
            {[state |-> [st EXCEPT !.position = p, !.energy = 0],
              event |-> "LIMIT_ENERGY", media |-> <<m0, m0>>] : p \in partial}
            \cup
            {[state |-> [st EXCEPT !.position = pe[1], !.energy = pe[2]],
              event |-> "OTHER", media |-> <<m0, m0>>] :
                 pe \in partial \X (1..st.energy)}

\* ---------------------------------------------------------- the program

inputs == <<narg, dumpOK, db, argDir, argEnergy, height0, layer0>>
handles == <<physics, context, stepper>>
geometry == <<layers, earth_media>>
trajectory == <<state, event, events, media, calls, ncalls, printStep, obs, stop>>

\* A slip in earth.c:50-52: the handles are destroyed in the order they were
\* acquired in.
exit_gracefully_forward(code) ==
    /\ released' = released \o << [handle |-> "physics", was |-> physics],
                                  [handle |-> "context", was |-> context],
                                  [handle |-> "stepper", was |-> stepper] >>
    /\ stepper' = "null"
    /\ context' = "null"
    /\ physics' = "null"
    /\ rc' = code
    /\ pc' = "exited"

\* earth.c:48-54: exit_gracefully.  Each handle is destroyed, which leaves it
\* null, and the process exits with rc.  A destroyed handle is recorded with
\* what it was.
exit_gracefully(code) ==
    /\ released' = released \o << [handle |-> "stepper", was |-> stepper],
                                  [handle |-> "context", was |-> context],
                                  [handle |-> "physics", was |-> physics] >>
    /\ stepper' = "null"
    /\ context' = "null"
    /\ physics' = "null"
    /\ rc' = code
    /\ pc' = "exited"

\* A slip in earth.c:65: the handler exits with the status of a success.
handle_error_success(message) ==
    /\ diag' = diag \o <<"pumas: library error. See details below", message>>
    /\ exit_gracefully(EXIT_SUCCESS)

\* earth.c:57-66: handle_error, the handler the engine calls on an error.
handle_error(message) ==
    /\ diag' = diag \o <<"pumas: library error. See details below", message>>
    /\ exit_gracefully(EXIT_FAILURE)

\* earth.c:145-161: the number of arguments is checked, the arguments are
\* parsed and the error handler is set.
CheckArgs ==
    /\ pc = "start"
    /\ IF narg < 4
       THEN /\ diag' = Append(diag, "Usage: AZIMUTH ELEVATION KINETIC_ENERGY")
            /\ exit_gracefully(EXIT_FAILURE)
            /\ UNCHANGED handler
       ELSE /\ handler' = TRUE
            /\ pc' = "fopen"
            /\ UNCHANGED <<handles, released, diag, rc>>
    /\ UNCHANGED <<inputs, cfg, geometry, trajectory>>

\* earth.c:166-171: the dump is opened.
OpenDump ==
    /\ pc = "fopen"
    /\ IF ~dumpOK
       THEN /\ diag' = Append(diag, "materials/dump: cannot open")
            /\ exit_gracefully(EXIT_FAILURE)
       ELSE /\ pc' = "load"
            /\ UNCHANGED <<handles, released, diag, rc>>
    /\ UNCHANGED <<inputs, handler, cfg, geometry, trajectory>>

\* earth.c:172-173: pumas_physics_load, which may raise an error.
PhysicsLoad ==
    /\ pc = "load"
    /\ \E ok \in BOOLEAN :
          IF ok
          THEN /\ physics' = "live"
               /\ pc' = "index"
               /\ UNCHANGED <<context, stepper, released, diag, rc>>
          ELSE handle_error("load")
    /\ UNCHANGED <<inputs, handler, cfg, geometry, trajectory>>

\* The media whose material is not mapped yet.
Unmapped == {i \in 1..NUMBER_OF_LAYERS : earth_media[i] = NULL}

\* A slip in earth.c:176-180: the material of the last medium is not mapped.
MaterialIndex_but_last ==
    /\ pc = "index"
    /\ LET i == CHOOSE j \in Unmapped : \A k \in Unmapped : j <= k
           m == pumas_physics_material_index(db, MaterialNames[i])
       IN IF m = NULL
          THEN /\ handle_error("material")
               /\ UNCHANGED earth_media
          ELSE /\ earth_media' = [earth_media EXCEPT ![i] = m]
               /\ pc' = IF i = NUMBER_OF_LAYERS - 1 THEN "context" ELSE "index"
               /\ UNCHANGED <<handles, released, diag, rc>>
    /\ UNCHANGED <<inputs, handler, cfg, layers, trajectory>>

\* earth.c:176-180: the next material index is mapped; a name the dump does not
\* have raises an error.
MaterialIndex ==
    /\ pc = "index"
    /\ LET i == CHOOSE j \in Unmapped : \A k \in Unmapped : j <= k
           m == pumas_physics_material_index(db, MaterialNames[i])
       IN IF m = NULL
          THEN /\ handle_error("material")
               /\ UNCHANGED earth_media
          ELSE /\ earth_media' = [earth_media EXCEPT ![i] = m]
               /\ pc' = IF i = NUMBER_OF_LAYERS THEN "context" ELSE "index"
               /\ UNCHANGED <<handles, released, diag, rc>>
    /\ UNCHANGED <<inputs, handler, cfg, layers, trajectory>>

\* earth.c:183: pumas_context_create, which may raise an error.
ContextCreate ==
    /\ pc = "context"
    /\ \E ok \in BOOLEAN :
          IF ok
          THEN /\ context' = "live"
               /\ cfg' = [medium |-> FALSE, random |-> FALSE, event |-> {}]
               /\ pc' = "configure"
               /\ UNCHANGED <<physics, stepper, released, diag, rc>>
          ELSE /\ handle_error("context")
               /\ UNCHANGED cfg
    /\ UNCHANGED <<inputs, handler, geometry, trajectory>>

\* A slip in earth.c:192: the event mask is left as the context was created.
Configure_no_event ==
    /\ pc = "configure"
    /\ cfg' = [medium |-> TRUE, random |-> TRUE, event |-> cfg.event]
    /\ pc' = "stepper"
    /\ UNCHANGED <<inputs, handler, handles, geometry, trajectory, released,
                   diag, rc>>

\* earth.c:186-192: the callbacks and the event mask are set.
Configure ==
    /\ pc = "configure"
    /\ cfg' = [medium |-> TRUE, random |-> TRUE,
               event |-> cfg.event \cup {"MEDIUM"}]
    /\ pc' = "stepper"
    /\ UNCHANGED <<inputs, handler, handles, geometry, trajectory, released,
                   diag, rc>>

\* earth.c:208-213: the stepper is created and its three flat layers are added.
StepperCreate ==
    /\ pc = "stepper"
    /\ stepper' = "live"
    /\ layers' = turtle_stepper_add_flat(
                    turtle_stepper_add_layer(
                       turtle_stepper_add_flat(
                          turtle_stepper_add_layer(
                             turtle_stepper_add_flat(<<>>, Flats[1])),
                          Flats[2])),
                    Flats[3])
    /\ pc' = "state"
    /\ UNCHANGED <<inputs, handler, physics, context, cfg, earth_media,
                   trajectory, released, diag, rc>>

\* earth.c:220-229: the Monte-Carlo state is initialised.
InitState ==
    /\ pc = "state"
    /\ state' = [charge |-> -1, energy |-> argEnergy, weight |-> 1,
                 position |-> turtle_stepper_position(layers, height0, layer0),
                 direction |-> turtle_ecef_from_horizontal(argDir)]
    /\ pc' = "print0"
    /\ UNCHANGED <<inputs, handler, handles, cfg, geometry, event, events, media,
                   calls, ncalls, printStep, obs, stop, released, diag, rc>>

\* A slip in earth.c:130-131: the material is named by the index of the medium
\* in earth_media instead of by the material of the medium.
print_state_index ==
    LET r == earth_medium(layers, state)
        material == IF r.medium = NULL THEN "(void)"
                    ELSE pumas_physics_material_name(db, r.medium)
        altitude == turtle_ecef_to_geodetic(r.position)
    IN /\ state' = [state EXCEPT !.position = r.position]
       /\ calls' = calls \cup {Call(layers, state)}
       /\ obs' = IF Len(obs) <= MaxCalls
                 THEN Append(obs, [step |-> printStep, energy |-> state.energy,
                                   altitude |-> altitude, material |-> material])
                 ELSE obs
       /\ printStep' = Min(printStep + 1, MaxCalls + 2)

\* A slip in earth.c:136: the static counter of the lines is not incremented.
print_state_nostep ==
    LET r == earth_medium(layers, state)
        material == IF r.medium = NULL THEN "(void)"
                    ELSE pumas_physics_material_name(db, earth_media[r.medium + 1])
        altitude == turtle_ecef_to_geodetic(r.position)
    IN /\ state' = [state EXCEPT !.position = r.position]
       /\ calls' = calls \cup {Call(layers, state)}
       /\ obs' = IF Len(obs) <= MaxCalls
                 THEN Append(obs, [step |-> printStep, energy |-> state.energy,
                                   altitude |-> altitude, material |-> material])
                 ELSE obs
       /\ printStep' = printStep

\* earth.c:119-139: print_state.  The medium is asked for, the material is
\* named and a line is printed; the static counter of the lines goes up.
print_state ==
    LET r == earth_medium(layers, state)
        material == IF r.medium = NULL THEN "(void)"
                    ELSE pumas_physics_material_name(db, earth_media[r.medium + 1])
        altitude == turtle_ecef_to_geodetic(r.position)
    IN /\ state' = [state EXCEPT !.position = r.position]
       /\ calls' = calls \cup {Call(layers, state)}
       /\ obs' = IF Len(obs) <= MaxCalls
                 THEN Append(obs, [step |-> printStep, energy |-> state.energy,
                                   altitude |-> altitude, material |-> material])
                 ELSE obs
       /\ printStep' = Min(printStep + 1, MaxCalls + 2)

\* earth.c:232: the initial state is printed.
PrintInitial ==
    /\ pc = "print0"
    /\ print_state
    /\ pc' = "transport"
    /\ UNCHANGED <<inputs, handler, handles, cfg, geometry, event, events, media,
                   ncalls, stop, released, diag, rc>>

\* earth.c:236: pumas_context_transport is called.  The engine asks the medium
\* callback where the call starts and where it ends; it may raise an error.
Transport ==
    /\ pc = "transport"
    /\ \E ok \in BOOLEAN :
          IF ok
          THEN /\ \E out \in pumas_context_transport(layers, cfg.event, state) :
                     /\ state' = out.state
                     /\ event' = out.event
                     /\ events' = IF Len(events) < MaxCalls
                                   THEN Append(events, out.event) ELSE events
                     /\ media' = out.media
                     /\ calls' = calls \cup {Call(layers, state),
                                             Call(layers, out.state)}
               /\ ncalls' = Min(ncalls + 1, MaxCalls)
               /\ pc' = "print"
               /\ UNCHANGED <<handles, released, diag, rc>>
          ELSE /\ handle_error("transport")
               /\ UNCHANGED <<state, event, events, media, calls, ncalls>>
    /\ UNCHANGED <<inputs, handler, cfg, geometry, printStep, obs, stop>>

\* earth.c:238: the state is printed after the transport call.
PrintStep ==
    /\ pc = "print"
    /\ print_state
    /\ pc' = "test"
    /\ UNCHANGED <<inputs, handler, handles, cfg, geometry, event, events, media,
                   ncalls, stop, released, diag, rc>>

\* A slip in earth.c:240: the energy is not looked at.
Test_medium_only ==
    /\ pc = "test"
    /\ IF media[2] = NULL
       THEN /\ stop' = {"STOPPED_VOID"}
            /\ pc' = "exit"
       ELSE /\ stop' = {}
            /\ pc' = "transport"
    /\ UNCHANGED <<inputs, handler, handles, cfg, geometry, state, event, events,
                   media, calls, ncalls, printStep, obs, released, diag, rc>>

\* A slip in earth.c:240: media[0], the medium before the call, is looked at.
Test_medium_before ==
    /\ pc = "test"
    /\ IF (state.energy = 0) \/ (media[1] = NULL)
       THEN /\ stop' = (IF state.energy = 0 THEN {"STOPPED_ENERGY"} ELSE {}) \cup
                       (IF media[1] = NULL THEN {"STOPPED_VOID"} ELSE {})
            /\ pc' = "exit"
       ELSE /\ stop' = {}
            /\ pc' = "transport"
    /\ UNCHANGED <<inputs, handler, handles, cfg, geometry, state, event, events,
                   media, calls, ncalls, printStep, obs, released, diag, rc>>

\* earth.c:240: the loop is left when the energy is zero or the medium after the
\* call is NULL (media[1] of the program is media[2] here).  Which of the two
\* held is kept: the loop is then in STOPPED_ENERGY, in STOPPED_VOID or, with
\* both, in either.
Test ==
    /\ pc = "test"
    /\ IF (state.energy = 0) \/ (media[2] = NULL)
       THEN /\ stop' = (IF state.energy = 0 THEN {"STOPPED_ENERGY"} ELSE {}) \cup
                       (IF media[2] = NULL THEN {"STOPPED_VOID"} ELSE {})
            /\ pc' = "exit"
       ELSE /\ stop' = {}
            /\ pc' = "transport"
    /\ UNCHANGED <<inputs, handler, handles, cfg, geometry, state, event, events,
                   media, calls, ncalls, printStep, obs, released, diag, rc>>

\* earth.c:244: the program ends.
Exit ==
    /\ pc = "exit"
    /\ exit_gracefully(EXIT_SUCCESS)
    /\ UNCHANGED <<inputs, handler, cfg, geometry, trajectory, diag>>

\* The state before main runs: the statics of earth.c:41-45 and 72-73, and the
\* inputs of the run.
Start ==
    /\ pc = "start"
    /\ narg \in 3..4
    /\ dumpOK \in BOOLEAN
    /\ db \in Dumps
    /\ argDir \in {-1, 0, 1}
    /\ argEnergy \in 0..MaxEnergy
    /\ handler = FALSE
    /\ physics = "null" /\ context = "null" /\ stepper = "null"
    /\ cfg = [medium |-> FALSE, random |-> FALSE, event |-> {}]
    /\ layers = <<>>
    /\ earth_media = [i \in 1..NUMBER_OF_LAYERS |-> NULL]
    /\ state = [charge |-> 0, energy |-> 0, weight |-> 0, position |-> 0,
                direction |-> 0]
    /\ event = "NONE"
    /\ events = <<>>
    /\ media = <<NULL, NULL>>
    /\ calls = {}
    /\ ncalls = 0
    /\ printStep = 0
    /\ obs = <<>>
    /\ stop = {}
    /\ released = <<>>
    /\ diag = <<>>
    /\ rc = -1

\* The program as written: the particle starts 0.5 m under the ground of layer 0.
Init ==
    /\ Start
    /\ height0 = StartHeight
    /\ layer0 = StartLayer

Next ==
    \/ CheckArgs
    \/ OpenDump
    \/ PhysicsLoad
    \/ MaterialIndex
    \/ ContextCreate
    \/ Configure
    \/ StepperCreate
    \/ InitState
    \/ PrintInitial
    \/ Transport
    \/ PrintStep
    \/ Test
    \/ Exit

Spec == Init /\ [][Next]_vars

\* The program with the start of earth.c:226-227 as an input: any height within
\* Margin of the ground of any layer.
InitAnywhere ==
    /\ Start
    /\ height0 \in -Margin..Margin
    /\ layer0 \in 0..(NUMBER_OF_LAYERS - 1)

SpecAnywhere == InitAnywhere /\ [][Next]_vars

\* The program as written, which goes on as long as it has a step to take.
SpecFair == Init /\ [][Next]_vars /\ WF_vars(Next)

TypeOK ==
    /\ pc \in {"start", "fopen", "load", "index", "context", "configure",
               "stepper", "state", "print0", "transport", "print", "test",
               "exit", "exited"}
    /\ stop \subseteq {"STOPPED_ENERGY", "STOPPED_VOID"}
    /\ ncalls \in 0..MaxCalls
    /\ Len(obs) <= MaxCalls + 1
    /\ state.energy \in 0..MaxEnergy

\* ------------------------------------------------------------ properties

\* The position the trajectory starts from, once the stepper is built.
StartPosition == turtle_stepper_position(layers, height0, layer0)

\* The loop has been left through the break of earth.c:240.
LoopLeft == pc = "exit" \/ (pc = "exited" /\ rc = EXIT_SUCCESS)

\* Every printed line is in obs.
Complete == printStep = Len(obs)

\* The materials of the printed lines, without the repetitions of a material
\* printed several times in a row.
RECURSIVE Distinct(_)
Distinct(seq) ==
    IF Len(seq) <= 1 THEN seq
    ELSE LET rest == Distinct(Tail(seq))
         IN IF seq[1] = rest[1] THEN rest ELSE <<seq[1]>> \o rest

Materials == [k \in 1..Len(obs) |-> obs[k].material]

IsPrefix(a, b) == Len(a) <= Len(b) /\ \A k \in 1..Len(a) : a[k] = b[k]

\* C1: after every transport call the loop is left if and only if the energy
\* is zero or the medium after the call is NULL; otherwise the next step is
\* another transport call; once the loop is left no transport call is made.
C1_StopIff ==
    [][/\ pc = "test" =>
             /\ (pc' = "exit") <=> ((state.energy = 0) \/ (media[2] = NULL))
             /\ (pc' = "transport") <=> ~((state.energy = 0) \/ (media[2] = NULL))
       /\ pc \in {"exit", "exited"} =>
             /\ pc' \in {"exit", "exited"}
             /\ ncalls' = ncalls /\ events' = events /\ state' = state]_vars

\* C1 witness: the loop went on twice and was left after the third call, on a
\* NULL medium with energy left.
C1_Witness ==
    /\ pc = "exited" /\ rc = EXIT_SUCCESS
    /\ ncalls = 3 /\ state.energy > 0 /\ media[2] = NULL

\* The layer indices C2 is stated over: from -MaxIndex to MaxIndex.
MaxIndex == 6

\* C2: the medium callback returns the entry of earth_media at the index the
\* stepper gives when the index is in [0, N), and NULL for any other index;
\* with three media exactly the indices 0, 1 and 2 give a medium.
C2_MediumOfIndex ==
    /\ \A c \in calls :
          /\ c.medium = IF c.index \in 0..(NUMBER_OF_LAYERS - 1)
                        THEN c.index ELSE NULL
          /\ (c.medium # NULL) <=> (c.index \in {0, 1, 2})
    /\ \A i \in (-MaxIndex)..MaxIndex :
          medium_of_index(i) = IF 0 <= i /\ i < NUMBER_OF_LAYERS THEN i ELSE NULL

\* C2 witness: the callback has been called on each of the three layers and
\* above them, where the index is N.
C2_Witness ==
    /\ \A i \in 0..NUMBER_OF_LAYERS : \E c \in calls : c.index = i
    /\ \E c \in calls : c.index = NUMBER_OF_LAYERS /\ c.medium = NULL
    /\ \E c \in calls : c.index = 0 /\ c.medium = 0

\* The materials a trajectory going up from the rock is seen in, in order.
UpwardMaterials == <<"StandardRock", "Water", "Air", "(void)">>

StartsInTop ==
    /\ layers # <<>>
    /\ earth_medium(layers, [state EXCEPT !.position = StartPosition]).medium
          = NUMBER_OF_LAYERS - 1

C5_ZeroEnergyStops ==
    [][(pc = "test" /\ state.energy = 0) =>
          (pc' = "exit" /\ "STOPPED_ENERGY" \in stop')]_vars

\* C5 witness: the loop was left with the energy at zero on a call that ended
\* on a NULL medium, and on a call that ended within a medium.
C5_Witness ==
    /\ LoopLeft /\ state.energy = 0 /\ "STOPPED_ENERGY" \in stop
    /\ argEnergy > 0 /\ media[1] # NULL /\ media[2] = NULL

\* C6: the transport loop always ends, after a bounded number of transport
\* calls, and the process exits.
C6_LoopEnds == <>(pc = "exited")

\* The trajectory starts in no medium.
StartsInVoid ==
    /\ layers # <<>>
    /\ earth_medium(layers, [state EXCEPT !.position = StartPosition]).medium = NULL

C8_Original ==
    \A c \in calls :
       /\ c.position < Flats[1] => c.medium = NULL
       /\ c.position > Flats[1] => c.medium # NULL
       /\ \A i \in 0..(NUMBER_OF_LAYERS - 1) :
             (/\ Flats[i + 1] < c.position
              /\ (i = NUMBER_OF_LAYERS - 1 \/ c.position < Flats[i + 2]))
                => c.medium = i

\* C8, amended: layer i lies under flat i, the lowest layer without end below:
\* a position strictly between flat i - 1 and flat i gives the medium i, a
\* position under the lowest flat gives the medium 0 and a position above the
\* topmost flat gives no medium.
C8_LayerOfPosition ==
    \A c \in calls :
       /\ c.position < Flats[1] => c.medium = 0
       /\ c.position > Flats[NUMBER_OF_LAYERS] => c.medium = NULL
       /\ \A i \in 1..(NUMBER_OF_LAYERS - 1) :
             (Flats[i] < c.position /\ c.position < Flats[i + 1])
                => c.medium = i

\* C8 witness: the callback was called strictly inside each of the three layers.
C8_Witness ==
    /\ \E c \in calls : c.position < Flats[1] /\ c.medium = 0
    /\ \E c \in calls : Flats[1] < c.position /\ c.position < Flats[2] /\ c.medium = 1
    /\ \E c \in calls : Flats[2] < c.position /\ c.position < Flats[3] /\ c.medium = 2

\* C9: the handles are acquired in the order physics, context, stepper; the
\* process exits only through exit_gracefully, which destroys the stepper, the
\* context and the physics in this order, a handle not acquired yet as a null
\* handle, and leaves them all null.
C9_ReleaseOrder ==
    /\ (pc = "exited") <=> (rc # -1)
    /\ pc # "exited" =>
          /\ released = <<>>
          /\ stepper = "live" => context = "live"
          /\ context = "live" => physics = "live"
    /\ pc = "exited" =>
          /\ [k \in 1..Len(released) |-> released[k].handle]
                = <<"stepper", "context", "physics">>
          /\ released[1].was = "live" => released[2].was = "live"
          /\ released[2].was = "live" => released[3].was = "live"
          /\ physics = "null" /\ context = "null" /\ stepper = "null"
          /\ rc \in {EXIT_SUCCESS, EXIT_FAILURE}
          /\ rc = EXIT_SUCCESS => \A k \in 1..3 : released[k].was = "live"

\* C9 witness: an error of the engine ended the process before the stepper was
\* created: the stepper was destroyed as a null handle, before the live physics.
C9_Witness ==
    /\ pc = "exited" /\ rc = EXIT_FAILURE
    /\ released[1] = [handle |-> "stepper", was |-> "null"]
    /\ released[3] = [handle |-> "physics", was |-> "live"]
    /\ diag # <<>>

Transporting ==
    \/ pc \in {"transport", "print", "test", "exit"}
    \/ pc = "exited" /\ released[1].was = "live"

\* C12: from the first transport call to the exit of the process every entry of
\* earth_media holds the index of its material in the dump, none the initial
\* -1; the entries are written only while the materials are mapped, after the
\* physics is loaded and before the context is created, and never again.
C12_MediaWrittenOnce ==
    /\ [](Transporting =>
             \A i \in 1..NUMBER_OF_LAYERS :
                /\ earth_media[i] # NULL
                /\ earth_media[i] =
                      pumas_physics_material_index(db, MaterialNames[i]))
    /\ [][(earth_media' # earth_media) =>
            (pc = "index" /\ physics = "live" /\ context = "null" /\ ncalls = 0)]_vars

\* C12 witness: a trajectory has ended with a dump whose indices are not those
\* of the media.
C12_Witness ==
    /\ pc = "exited" /\ rc = EXIT_SUCCESS /\ ncalls >= 1
    /\ db = <<"Air", "StandardRock", "Water">>
    /\ earth_media = <<1, 2, 0>>

\* The dump lacks one of the materials of earth.c:177-180.
MaterialMissing ==
    \E i \in 1..NUMBER_OF_LAYERS :
       pumas_physics_material_index(db, MaterialNames[i]) = NULL

\* C13: an error ends the process with a failure status and a diagnostic: a
\* diagnostic is written only on the step that exits with a failure, which makes
\* no transport call and prints no line, and no step follows the exit; too few
\* arguments, a dump that cannot be opened and a material the dump lacks each
\* lead there.
C13_ErrorsAreFatal ==
    /\ [](/\ (diag # <<>>) <=> (pc = "exited" /\ rc = EXIT_FAILURE)
          /\ (narg < 4 /\ pc # "start") =>
                (pc = "exited" /\ rc = EXIT_FAILURE)
          /\ (narg >= 4 /\ ~dumpOK /\ pc \notin {"start", "fopen"}) =>
                (pc = "exited" /\ rc = EXIT_FAILURE)
          /\ (narg >= 4 /\ dumpOK /\ MaterialMissing
                 /\ pc \notin {"start", "fopen", "load", "index"}) =>
                (pc = "exited" /\ rc = EXIT_FAILURE)
          /\ (pc = "exited" /\ rc = EXIT_FAILURE /\ released[1].was = "null") =>
                (ncalls = 0 /\ obs = <<>>))
    /\ [][/\ pc # "exited"
          /\ (diag' # diag) =>
                /\ pc' = "exited" /\ rc' = EXIT_FAILURE
                /\ ncalls' = ncalls /\ obs' = obs /\ printStep' = printStep
                /\ state' = state]_vars

\* C13 witness: an error of the engine in the second transport call has ended
\* the process.
C13_Witness ==
    /\ pc = "exited" /\ rc = EXIT_FAILURE
    /\ diag = <<"pumas: library error. See details below", "transport">>
    /\ ncalls = 1 /\ Len(obs) = 2

\* C14: when the engine is called the error handler is set, the physics is
\* loaded, the three materials are mapped, the context holds the medium
\* callback, the random source and the MEDIUM event, the stepper holds the three
\* flat layers, and at the first call the state is the initial one.
C14_ConfiguredBeforeTransport ==
    (pc \in {"transport", "print", "test"}) =>
       /\ handler
       /\ physics = "live" /\ context = "live" /\ stepper = "live"
       /\ \A i \in 1..NUMBER_OF_LAYERS :
             earth_media[i] = pumas_physics_material_index(db, MaterialNames[i])
       /\ \A i \in 1..NUMBER_OF_LAYERS : earth_media[i] # NULL
       /\ cfg.medium /\ cfg.random /\ "MEDIUM" \in cfg.event
       /\ layers = << <<Flats[1]>>, <<Flats[2]>>, <<Flats[3]>> >>
       /\ (pc = "transport" /\ ncalls = 0) =>
             state = [charge |-> -1, energy |-> argEnergy, weight |-> 1,
                      position |-> StartPosition, direction |-> argDir]

\* C14 witness: the engine is about to be called for the third time.
C14_Witness ==
    /\ pc = "transport" /\ ncalls = 2
    /\ "MEDIUM" \in cfg.event /\ handler

\* C15: a transport call that ends on an event other than a change of medium
\* or the energy limit is the last one: the test that follows it leaves the loop.
C15_OtherEventStops ==
    [][(pc = "test" /\ event = "OTHER") => (pc' = "exit")]_vars

\* The layer index of the initial position.
StartIndex ==
    earth_medium(layers, [state EXCEPT !.position = StartPosition]).index

C17_LinePerCall ==
    /\ (ncalls < MaxCalls /\ (pc \in {"transport", "test", "exit"}
                                 \/ (pc = "exited" /\ Transporting))) =>
          (printStep = ncalls + 1 /\ Len(obs) = ncalls + 1)
    /\ (ncalls < MaxCalls /\ pc = "print") =>
          (printStep = ncalls /\ Len(obs) = ncalls)
    /\ (pc \notin {"transport", "print", "test", "exit"} /\ ~Transporting) =>
          (printStep = 0 /\ obs = <<>> /\ ncalls = 0)
    /\ \A k \in 1..Len(obs) :
          /\ obs[k].step = k - 1
          /\ (obs[k].material = "(void)") <=>
                (earth_medium(layers,
                    [state EXCEPT !.position = obs[k].altitude]).medium = NULL)

\* C17 witness: the loop has been left after two calls, the last line is the
\* third, numbered 2, and names no material, the lines before it name one.
C17_Witness ==
    /\ LoopLeft /\ ncalls = 2 /\ Len(obs) = 3 /\ printStep = 3
    /\ obs[3].step = 2 /\ obs[3].material = "(void)"
    /\ obs[1].material # "(void)" /\ obs[2].material # "(void)"

====
